---- MODULE Spec2Model ----
(***************************************************************************)
(* The PeerName contract (src/lib.rs): a hierarchical name registry.       *)
(* Storage is two hash maps keyed by a 16-byte node (node -> owner,        *)
(* node -> resolver) and two account fields (admin, manager).  Every       *)
(* message of the contract is one atomic step; the caller is supplied by   *)
(* the environment.  Emitted events are appended to the environment's      *)
(* event log.                                                              *)
(***************************************************************************)
EXTENDS Integers, Sequences, FiniteSets, TLC

\* ------------------------------------------------------------------ bounds
\* Number of messages sent to the contract in one behaviour.
MaxCalls == 3

\* ---------------------------------------------------------------- universe
\* Account identifiers the environment can present as caller or argument.
AccountId == {"acc1", "acc2", "acc3"}

\* Resolver is an alias of AccountId (src/lib.rs:17); the resolver arguments
\* tried are two of the accounts.
Resolver == {"acc1", "acc2"}

\* Constructor arguments tried.  Accounts are interchangeable, so one admin
\* with a manager equal to it or different from it covers every construction.
InitAdmins == {"acc1"}

InitManagers == {"acc1", "acc2"}

\* Top-level names and sub names tried, as byte vectors.  With one name of
\* each kind the registry has two nodes, the name's and the sub name's.
Domains == {<<97>>}

SubDomains == {<<99>>}

\* Option::None.
None == "None"

\* ------------------------------------------------------------------ hashing
\* SCALE encoding of a Vec<u8>: the compact length prefix (one byte, len * 4,
\* for lengths below 64) followed by the bytes.
EncodeVec(v) == <<(Len(v) * 4) % 256>> \o v

\* SCALE encoding of a tuple (Vec<u8>, Vec<u8>): the two encodings in order.
EncodeTuple(a, b) == EncodeVec(a) \o EncodeVec(b)

\* Blake2x128 over the encoded bytes.  The digest is the host's primitive; it
\* is taken to be collision free, so a digest is represented by its preimage.
hash_encoded(bytes) == bytes

get_node(domain) == hash_encoded(EncodeVec(domain))

get_subnode(domain, subdomain) == hash_encoded(EncodeTuple(domain, subdomain))

\* ------------------------------------------------------------ map helpers
\* HashMap::contains_key
contains_key(m, k) == k \in DOMAIN m

\* HashMap::get(..).cloned()
get(m, k) == IF k \in DOMAIN m THEN m[k] ELSE None

\* HashMap::insert: insert or overwrite.
insert(m, k, v) == [x \in (DOMAIN m) \cup {k} |-> IF x = k THEN v ELSE m[x]]

\* HashMap::take: remove the entry if present.
take(m, k) == [x \in (DOMAIN m) \ {k} |-> m[x]]

\* ------------------------------------------------------------------- state
VARIABLES
    records,    \* node -> owner
    resolvers,  \* node -> resolver
    admin,      \* admin of the contract
    manager,    \* current manager of the contract
    events,     \* events emitted so far, oldest first
    last,       \* the message handled by the latest step and what it returned
    pre,        \* the storage and the log as they were before that message
    calls       \* number of messages handled

vars == <<records, resolvers, admin, manager, events, last, pre, calls>>

\* The contract's storage together with the environment's event log.
PeerName == [records |-> records, resolvers |-> resolvers, admin |-> admin,
             manager |-> manager, events |-> events]

\* Result<(), Error> of a message, with the storage it leaves behind.
Ok(self) == [result |-> "Ok", self |-> self]

Err(e, self) == [result |-> e, self |-> self]

\* self.env().emit_event(..)
emit_event(self, ev) == [self EXCEPT !.events = Append(@, ev)]

\* ------------------------------------------------------- private functions
\* Variant of authorized that accepts any caller once the node has an owner.
authorized_any_caller(self, caller, node) ==
    LET node_owner == get(self.records, node)
    IN  IF node_owner # None THEN TRUE ELSE FALSE

authorized(self, caller, node) ==
    LET node_owner == get(self.records, node)
    IN  IF caller = node_owner THEN TRUE ELSE FALSE

_set_owner(self, node, owner) ==
    emit_event([self EXCEPT !.records = insert(@, node, owner)],
               [type |-> "Transfer", node |-> node, owner |-> owner])

_set_resolver(self, node, resolver) ==
    emit_event([self EXCEPT !.resolvers = insert(@, node, resolver)],
               [type |-> "NewResolver", node |-> node, resolver |-> resolver])

\* ---------------------------------------------------------------- messages
\* Variants of register_domain with one check or one write left out.
register_domain_no_manager_check(self, caller, domain, owner, resolver) ==
    LET node == get_node(domain) IN
    IF contains_key(self.records, node) THEN Err("NameAlreadyExists", self)
    ELSE LET s1 == _set_owner(self, node, owner)
             s2 == _set_resolver(s1, node, resolver)
             s3 == emit_event(s2, [type |-> "Register", node |-> node,
                                   from |-> owner])
         IN  Ok(s3)

register_domain_no_exists_check(self, caller, domain, owner, resolver) ==
    IF caller # self.manager THEN Err("UnauthorizedCaller", self)
    ELSE LET node == get_node(domain)
             s1 == _set_owner(self, node, owner)
             s2 == _set_resolver(s1, node, resolver)
             s3 == emit_event(s2, [type |-> "Register", node |-> node,
                                   from |-> owner])
         IN  Ok(s3)

register_domain_keeps_resolver(self, caller, domain, owner, resolver) ==
    IF caller # self.manager THEN Err("UnauthorizedCaller", self)
    ELSE LET node == get_node(domain) IN
         IF contains_key(self.records, node) THEN Err("NameAlreadyExists", self)
         ELSE LET s1 == _set_owner(self, node, owner)
                  s2 == IF contains_key(s1.resolvers, node) THEN s1
                        ELSE _set_resolver(s1, node, resolver)
                  s3 == emit_event(s2, [type |-> "Register", node |-> node,
                                        from |-> owner])
              IN  Ok(s3)

register_domain(self, caller, domain, owner, resolver) ==
    IF caller # self.manager THEN Err("UnauthorizedCaller", self)
    ELSE LET node == get_node(domain) IN
         IF contains_key(self.records, node) THEN Err("NameAlreadyExists", self)
         ELSE LET s1 == _set_owner(self, node, owner)
                  s2 == _set_resolver(s1, node, resolver)
                  s3 == emit_event(s2, [type |-> "Register", node |-> node,
                                        from |-> owner])
              IN  Ok(s3)

\* Variants of set_sub_domain: without the owner check, without the check for
\* an existing sub node, and with the resolver written before that check.
set_sub_domain_no_owner_check(self, caller, domain, subdomain, resolver) ==
    LET node == get_node(domain) IN
    IF ~contains_key(self.records, node) THEN Err("NameNotExists", self)
    ELSE LET subnode == get_subnode(domain, subdomain) IN
         IF contains_key(self.records, subnode)
         THEN Err("NameAlreadyExists", self)
         ELSE LET s1 == _set_owner(self, subnode, caller)
                  s2 == _set_resolver(s1, subnode, resolver)
                  s3 == emit_event(s2, [type |-> "Register", node |-> subnode,
                                        from |-> caller])
              IN  Ok(s3)

set_sub_domain_no_exists_check(self, caller, domain, subdomain, resolver) ==
    LET node == get_node(domain) IN
    IF ~contains_key(self.records, node) THEN Err("NameNotExists", self)
    ELSE IF ~authorized(self, caller, node) THEN Err("UnauthorizedCaller", self)
    ELSE LET subnode == get_subnode(domain, subdomain)
             s1 == _set_owner(self, subnode, caller)
             s2 == _set_resolver(s1, subnode, resolver)
             s3 == emit_event(s2, [type |-> "Register", node |-> subnode,
                                   from |-> caller])
         IN  Ok(s3)

set_sub_domain_early_write(self, caller, domain, subdomain, resolver) ==
    LET node == get_node(domain) IN
    IF ~contains_key(self.records, node) THEN Err("NameNotExists", self)
    ELSE IF ~authorized(self, caller, node) THEN Err("UnauthorizedCaller", self)
    ELSE LET subnode == get_subnode(domain, subdomain)
             s0 == _set_resolver(self, subnode, resolver) IN
         IF contains_key(self.records, subnode)
         THEN Err("NameAlreadyExists", s0)
         ELSE LET s1 == _set_owner(s0, subnode, caller)
                  s3 == emit_event(s1, [type |-> "Register", node |-> subnode,
                                        from |-> caller])
              IN  Ok(s3)

\* Variant of set_sub_domain that records the owner and no resolver.
set_sub_domain_no_resolver(self, caller, domain, subdomain, resolver) ==
    LET node == get_node(domain) IN
    IF ~contains_key(self.records, node) THEN Err("NameNotExists", self)
    ELSE IF ~authorized(self, caller, node) THEN Err("UnauthorizedCaller", self)
    ELSE LET subnode == get_subnode(domain, subdomain) IN
         IF contains_key(self.records, subnode)
         THEN Err("NameAlreadyExists", self)
         ELSE LET s1 == _set_owner(self, subnode, caller)
                  s3 == emit_event(s1, [type |-> "Register", node |-> subnode,
                                        from |-> caller])
              IN  Ok(s3)

set_sub_domain(self, caller, domain, subdomain, resolver) ==
    LET node == get_node(domain) IN
    IF ~contains_key(self.records, node) THEN Err("NameNotExists", self)
    ELSE IF ~authorized(self, caller, node) THEN Err("UnauthorizedCaller", self)
    ELSE LET subnode == get_subnode(domain, subdomain) IN
         IF contains_key(self.records, subnode)
         THEN Err("NameAlreadyExists", self)
         ELSE LET s1 == _set_owner(self, subnode, caller)
                  s2 == _set_resolver(s1, subnode, resolver)
                  s3 == emit_event(s2, [type |-> "Register", node |-> subnode,
                                        from |-> caller])
              IN  Ok(s3)

update_domain_resolver(self, caller, domain, resolver) ==
    LET node == get_node(domain) IN
    IF ~contains_key(self.records, node) THEN Err("NameNotExists", self)
    ELSE IF ~authorized(self, caller, node) THEN Err("UnauthorizedCaller", self)
    ELSE Ok(_set_resolver(self, node, resolver))

\* Variant of update_subdomain_resolver that wants a record for the sub node.
update_subdomain_resolver_checks_sub(self, caller, domain, resolver, subdomain) ==
    LET node == get_node(domain) IN
    IF ~contains_key(self.records, node) THEN Err("NameNotExists", self)
    ELSE IF ~authorized(self, caller, node) THEN Err("UnauthorizedCaller", self)
    ELSE LET subnode == get_subnode(domain, subdomain) IN
         IF ~contains_key(self.records, subnode)
         THEN Err("NameNotExists", self)
         ELSE Ok(_set_resolver(self, subnode, resolver))

update_subdomain_resolver(self, caller, domain, resolver, subdomain) ==
    LET node == get_node(domain) IN
    IF ~contains_key(self.records, node) THEN Err("NameNotExists", self)
    ELSE IF ~authorized(self, caller, node) THEN Err("UnauthorizedCaller", self)
    ELSE LET subnode == get_subnode(domain, subdomain)
         IN  Ok(_set_resolver(self, subnode, resolver))

\* Variants of transfer_domain_ownership: one without the owner check, one
\* that drops the name's resolver entry.
transfer_domain_ownership_no_owner_check(self, caller, domain, new_owner) ==
    LET node == get_node(domain) IN
    IF ~contains_key(self.records, node) THEN Err("NameNotExists", self)
    ELSE LET s1 == _set_owner(self, node, new_owner)
             s2 == emit_event(s1, [type |-> "Transfer", node |-> node,
                                   owner |-> new_owner])
         IN  Ok(s2)

transfer_domain_ownership_clears_resolver(self, caller, domain, new_owner) ==
    LET node == get_node(domain) IN
    IF ~contains_key(self.records, node) THEN Err("NameNotExists", self)
    ELSE IF ~authorized(self, caller, node) THEN Err("UnauthorizedCaller", self)
    ELSE LET s1 == _set_owner(self, node, new_owner)
             s2 == emit_event(s1, [type |-> "Transfer", node |-> node,
                                   owner |-> new_owner])
         IN  Ok([s2 EXCEPT !.resolvers = take(@, node)])

transfer_domain_ownership(self, caller, domain, new_owner) ==
    LET node == get_node(domain) IN
    IF ~contains_key(self.records, node) THEN Err("NameNotExists", self)
    ELSE IF ~authorized(self, caller, node) THEN Err("UnauthorizedCaller", self)
    ELSE LET s1 == _set_owner(self, node, new_owner)
             s2 == emit_event(s1, [type |-> "Transfer", node |-> node,
                                   owner |-> new_owner])
         IN  Ok(s2)

\* Variant of renounce_ownership that leaves the record in place.
renounce_ownership_keeps_record(self, caller, domain) ==
    LET node == get_node(domain) IN
    IF caller # self.manager THEN Err("UnauthorizedCaller", self)
    ELSE IF ~contains_key(self.records, node) THEN Err("NameNotExists", self)
    ELSE Ok(self)

renounce_ownership(self, caller, domain) ==
    LET node == get_node(domain) IN
    IF caller # self.manager THEN Err("UnauthorizedCaller", self)
    ELSE IF ~contains_key(self.records, node) THEN Err("NameNotExists", self)
    ELSE Ok([self EXCEPT !.records = take(@, node)])

\* Variants of renounce_my_ownership: one removes the resolver entry too, one
\* removes the records of the sub nodes with the name's record.
renounce_my_ownership_clears_resolver(self, caller, domain) ==
    LET node == get_node(domain) IN
    IF ~authorized(self, caller, node) THEN Err("UnauthorizedCaller", self)
    ELSE IF ~contains_key(self.records, node) THEN Err("NameNotExists", self)
    ELSE Ok([self EXCEPT !.records = take(@, node),
                         !.resolvers = take(@, node)])

renounce_my_ownership_cascade(self, caller, domain) ==
    LET node == get_node(domain)
        under(k) == Len(k) >= Len(node) /\ SubSeq(k, 1, Len(node)) = node
    IN
    IF ~authorized(self, caller, node) THEN Err("UnauthorizedCaller", self)
    ELSE IF ~contains_key(self.records, node) THEN Err("NameNotExists", self)
    ELSE Ok([self EXCEPT !.records =
                 [k \in {x \in DOMAIN self.records : ~under(x)} |->
                     self.records[k]]])

\* Variant of renounce_my_ownership with renounce_ownership's manager check.
renounce_my_ownership_manager_check(self, caller, domain) ==
    LET node == get_node(domain) IN
    IF caller # self.manager THEN Err("UnauthorizedCaller", self)
    ELSE IF ~contains_key(self.records, node) THEN Err("NameNotExists", self)
    ELSE Ok([self EXCEPT !.records = take(@, node)])

renounce_my_ownership(self, caller, domain) ==
    LET node == get_node(domain) IN
    IF ~authorized(self, caller, node) THEN Err("UnauthorizedCaller", self)
    ELSE IF ~contains_key(self.records, node) THEN Err("NameNotExists", self)
    ELSE Ok([self EXCEPT !.records = take(@, node)])

\* Variant of change_manager that assigns the admin field.
change_manager_sets_admin(self, caller, _manager) ==
    IF caller # self.admin THEN Err("UnauthorizedCaller", self)
    ELSE LET s1 == [self EXCEPT !.admin = _manager]
             s2 == emit_event(s1, [type |-> "ChangeManager",
                                   _current_manager |-> s1.manager,
                                   _new_manager |-> _manager])
         IN  Ok(s2)

\* Variant of change_manager without the admin check.
change_manager_no_admin_check(self, caller, _manager) ==
    LET s1 == [self EXCEPT !.manager = _manager]
        s2 == emit_event(s1, [type |-> "ChangeManager",
                              _current_manager |-> s1.manager,
                              _new_manager |-> _manager])
    IN  Ok(s2)

change_manager(self, caller, _manager) ==
    IF caller # self.admin THEN Err("UnauthorizedCaller", self)
    ELSE LET s1 == [self EXCEPT !.manager = _manager]
             s2 == emit_event(s1, [type |-> "ChangeManager",
                                   _current_manager |-> s1.manager,
                                   _new_manager |-> _manager])
         IN  Ok(s2)

\* ----------------------------------------------------------------- queries
is_domain_exist(self, domain) ==
    IF contains_key(self.records, get_node(domain)) THEN TRUE ELSE FALSE

is_subdomain_exist(self, domain, subdomain) ==
    IF contains_key(self.records, get_subnode(domain, subdomain))
    THEN TRUE ELSE FALSE

owner(self, domain) == get(self.records, get_node(domain))

domain_resolver(self, domain) == get(self.resolvers, get_node(domain))

subdomain_resolver(self, domain, subdomain) ==
    get(self.resolvers, get_subnode(domain, subdomain))

current_manager(self) == self.manager

\* The message admin(); the name admin is the storage field's.
admin_of(self) == self.admin

\* ------------------------------------------------------------- transitions
\* The description of a handled message.  A name the message does not take
\* is the empty byte vector, an account or resolver it does not take is None.
Call(op, caller, domain, subdomain, account, resolver, result) ==
    [op |-> op, caller |-> caller, domain |-> domain, subdomain |-> subdomain,
     account |-> account, resolver |-> resolver, result |-> result]

\* The step of a message: the storage and the log become what the message
\* left, and the message and its result are recorded.
Commit(out, call) ==
    /\ calls < MaxCalls
    /\ records' = out.self.records
    /\ resolvers' = out.self.resolvers
    /\ admin' = out.self.admin
    /\ manager' = out.self.manager
    /\ events' = out.self.events
    /\ last' = call
    /\ pre' = PeerName
    /\ calls' = calls + 1

\* PeerName::default(_admin, _manager)
Init ==
    /\ records = << >>
    /\ resolvers = << >>
    /\ admin \in InitAdmins
    /\ manager \in InitManagers
    /\ events = << >>
    /\ last = Call("default", None, << >>, << >>, None, None, "Ok")
    /\ pre = PeerName
    /\ calls = 0

RegisterDomain ==
    \E caller \in AccountId, domain \in Domains, o \in AccountId, r \in Resolver :
        LET out == register_domain(PeerName, caller, domain, o, r)
        IN  Commit(out, Call("register_domain", caller, domain, << >>, o, r,
                             out.result))

SetSubDomain ==
    \E caller \in AccountId, domain \in Domains, sub \in SubDomains, r \in Resolver :
        LET out == set_sub_domain(PeerName, caller, domain, sub, r)
        IN  Commit(out, Call("set_sub_domain", caller, domain, sub, None, r,
                             out.result))

UpdateDomainResolver ==
    \E caller \in AccountId, domain \in Domains, r \in Resolver :
        LET out == update_domain_resolver(PeerName, caller, domain, r)
        IN  Commit(out, Call("update_domain_resolver", caller, domain, << >>,
                             None, r, out.result))

UpdateSubdomainResolver ==
    \E caller \in AccountId, domain \in Domains, sub \in SubDomains, r \in Resolver :
        LET out == update_subdomain_resolver(PeerName, caller, domain, r, sub)
        IN  Commit(out, Call("update_subdomain_resolver", caller, domain, sub,
                             None, r, out.result))

TransferDomainOwnership ==
    \E caller \in AccountId, domain \in Domains, o \in AccountId :
        LET out == transfer_domain_ownership(PeerName, caller, domain, o)
        IN  Commit(out, Call("transfer_domain_ownership", caller, domain, << >>,
                             o, None, out.result))

RenounceOwnership ==
    \E caller \in AccountId, domain \in Domains :
        LET out == renounce_ownership(PeerName, caller, domain)
        IN  Commit(out, Call("renounce_ownership", caller, domain, << >>, None,
                             None, out.result))

RenounceMyOwnership ==
    \E caller \in AccountId, domain \in Domains :
        LET out == renounce_my_ownership(PeerName, caller, domain)
        IN  Commit(out, Call("renounce_my_ownership", caller, domain, << >>,
                             None, None, out.result))

ChangeManager ==
    \E caller \in AccountId, m \in AccountId :
        LET out == change_manager(PeerName, caller, m)
        IN  Commit(out, Call("change_manager", caller, << >>, << >>, m, None,
                             out.result))

\* The step of a message that takes &self: it cannot write the storage and
\* emits nothing; the value it returned is recorded.
Answer(call) ==
    /\ calls < MaxCalls
    /\ UNCHANGED <<records, resolvers, admin, manager, events>>
    /\ last' = call
    /\ pre' = PeerName
    /\ calls' = calls + 1

\* A bool as it is recorded in last.result.
Bool(b) == IF b THEN "true" ELSE "false"

IsDomainExist ==
    \E caller \in AccountId, domain \in Domains :
        Answer(Call("is_domain_exist", caller, domain, << >>, None, None,
                    Bool(is_domain_exist(PeerName, domain))))

IsSubdomainExist ==
    \E caller \in AccountId, domain \in Domains, sub \in SubDomains :
        Answer(Call("is_subdomain_exist", caller, domain, sub, None, None,
                    Bool(is_subdomain_exist(PeerName, domain, sub))))

Owner ==
    \E caller \in AccountId, domain \in Domains :
        Answer(Call("owner", caller, domain, << >>, None, None,
                    owner(PeerName, domain)))

DomainResolver ==
    \E caller \in AccountId, domain \in Domains :
        Answer(Call("domain_resolver", caller, domain, << >>, None, None,
                    domain_resolver(PeerName, domain)))

SubdomainResolver ==
    \E caller \in AccountId, domain \in Domains, sub \in SubDomains :
        Answer(Call("subdomain_resolver", caller, domain, sub, None, None,
                    subdomain_resolver(PeerName, domain, sub)))

CurrentManager ==
    \E caller \in AccountId :
        Answer(Call("current_manager", caller, << >>, << >>, None, None,
                    current_manager(PeerName)))

Admin ==
    \E caller \in AccountId :
        Answer(Call("admin", caller, << >>, << >>, None, None,
                    admin_of(PeerName)))

Next ==
    \/ RegisterDomain
    \/ SetSubDomain
    \/ UpdateDomainResolver
    \/ UpdateSubdomainResolver
    \/ TransferDomainOwnership
    \/ RenounceOwnership
    \/ RenounceMyOwnership
    \/ ChangeManager
    \/ IsDomainExist
    \/ IsSubdomainExist
    \/ Owner
    \/ DomainResolver
    \/ SubdomainResolver
    \/ CurrentManager
    \/ Admin

Spec == Init /\ [][Next]_vars

\* ------------------------------------------------------------- properties
Errors == {"UnauthorizedCaller", "NameAlreadyExists", "NameNotExists"}

\* The messages that return Result<(), Error>.
Mutations == {"register_domain", "set_sub_domain", "update_domain_resolver",
              "update_subdomain_resolver", "transfer_domain_ownership",
              "renounce_ownership", "renounce_my_ownership", "change_manager"}

\* The messages that take &self and return a value.
Queries == {"is_domain_exist", "is_subdomain_exist", "owner", "domain_resolver",
            "subdomain_resolver", "current_manager", "admin"}

\* The latest step handled message op and returned res.
Returned(op, res) == last.op = op /\ last.result = res

\* C1: register_domain called by any caller that is not the current manager
\* returns UnauthorizedCaller, and the step leaves the owner map, the resolver
\* map, admin, manager and the event log as they were.
C1_RegisterByNonManager ==
    [][(last'.op = "register_domain" /\ calls' = calls + 1
        /\ last'.caller # manager)
       => /\ last'.result = "UnauthorizedCaller"
          /\ UNCHANGED <<records, resolvers, admin, manager, events>>]_vars

\* A non-manager's register_domain was rejected in a state with records and
\* events to lose.
C1_Witness ==
    /\ Returned("register_domain", "UnauthorizedCaller")
    /\ last.caller # manager
    /\ DOMAIN records # {}
    /\ Len(events) > 0

\* C2 as stated: register_domain on a name whose node already has a record
\* returns NameAlreadyExists whoever calls, and the record is not changed.
C2_Original ==
    [][(last'.op = "register_domain" /\ calls' = calls + 1
        /\ contains_key(records, get_node(last'.domain)))
       => /\ last'.result = "NameAlreadyExists"
          /\ records' = records]_vars

\* C2 as amended: register_domain on a name whose node already has a record
\* fails for every caller and changes nothing; the error is NameAlreadyExists
\* when the caller is the manager and UnauthorizedCaller otherwise.
C2_RegisterExisting ==
    [][(last'.op = "register_domain" /\ calls' = calls + 1
        /\ contains_key(records, get_node(last'.domain)))
       => /\ last'.result = IF last'.caller = manager
                            THEN "NameAlreadyExists"
                            ELSE "UnauthorizedCaller"
          /\ UNCHANGED <<records, resolvers, admin, manager, events>>]_vars

\* The manager tried to register an owned name for somebody else and got
\* NameAlreadyExists.
C2_Witness ==
    /\ Returned("register_domain", "NameAlreadyExists")
    /\ last.caller = manager
    /\ contains_key(records, get_node(last.domain))
    /\ records[get_node(last.domain)] # last.account

HasRecord(self, domain) == contains_key(self.records, get_node(domain))

\* The log is that of one register_domain followed by one successful
\* transfer_domain_ownership of the same name, and three messages were handled:
\* the name was registered to registrant, registrant transferred it to heir,
\* and the latest message came after that.
AfterRegisterThenTransfer(domain, registrant, heir) ==
    /\ calls = 3
    /\ Len(events) = 5
    /\ events[3] = [type |-> "Register", node |-> get_node(domain),
                    from |-> registrant]
    /\ events[5] = [type |-> "Transfer", node |-> get_node(domain),
                    owner |-> heir]

\* C4 as stated: on a name with a record, transfer_domain_ownership by a
\* caller other than the owner returns UnauthorizedCaller; by the owner it
\* returns Ok and owner(n) is then the new owner; and after a successful
\* transfer the next transfer_domain_ownership or renounce_my_ownership on that
\* name by the previous owner fails, for every choice of new owner.
C4_Original ==
    [][calls' = calls + 1 =>
       /\ (/\ last'.op = "transfer_domain_ownership"
           /\ HasRecord(PeerName, last'.domain)
           /\ last'.caller # records[get_node(last'.domain)])
          => last'.result = "UnauthorizedCaller"
       /\ (/\ last'.op = "transfer_domain_ownership"
           /\ HasRecord(PeerName, last'.domain)
           /\ last'.caller = records[get_node(last'.domain)])
          => /\ last'.result = "Ok"
             /\ owner(PeerName', last'.domain) = last'.account
       /\ (/\ Returned("transfer_domain_ownership", "Ok")
           /\ last'.op \in {"transfer_domain_ownership", "renounce_my_ownership"}
           /\ last'.domain = last.domain
           /\ last'.caller = last.caller)
          => last'.result # "Ok"]_vars

\* C4 as amended: the first two parts as stated; and a transfer_domain_ownership
\* or renounce_my_ownership on a name by a caller that is not its recorded
\* owner fails (UnauthorizedCaller while the name has a record), so after a
\* successful transfer to a new owner other than the caller the previous
\* owner's next such call returns UnauthorizedCaller.  A transfer to oneself
\* leaves the caller the owner.
C4_Transfer ==
    [][calls' = calls + 1 =>
       /\ (/\ last'.op = "transfer_domain_ownership"
           /\ HasRecord(PeerName, last'.domain)
           /\ last'.caller # records[get_node(last'.domain)])
          => /\ last'.result = "UnauthorizedCaller"
             /\ records' = records
       /\ (/\ last'.op = "transfer_domain_ownership"
           /\ HasRecord(PeerName, last'.domain)
           /\ last'.caller = records[get_node(last'.domain)])
          => /\ last'.result = "Ok"
             /\ owner(PeerName', last'.domain) = last'.account
       /\ (/\ last'.op \in {"transfer_domain_ownership", "renounce_my_ownership"}
           /\ last'.caller # get(records, get_node(last'.domain)))
          => /\ last'.result \in Errors
             /\ HasRecord(PeerName, last'.domain)
                => last'.result = "UnauthorizedCaller"
             /\ records' = records
       /\ (/\ Returned("transfer_domain_ownership", "Ok")
           /\ last.account # last.caller
           /\ last'.op \in {"transfer_domain_ownership", "renounce_my_ownership"}
           /\ last'.domain = last.domain
           /\ last'.caller = last.caller)
          => last'.result = "UnauthorizedCaller"]_vars

\* The registrant of a name transferred it to another account and was then
\* refused renounce_my_ownership on it.
C4_Witness ==
    /\ Returned("renounce_my_ownership", "UnauthorizedCaller")
    /\ \E heir \in AccountId \ {last.caller} :
           AfterRegisterThenTransfer(last.domain, last.caller, heir)

\* C5: after a successful renounce_ownership(n) or renounce_my_ownership(n),
\* is_domain_exist(n) is false, owner(n) is None and register_domain(n, o, r)
\* by the manager returns Ok for every o and r; and after every successful
\* register_domain(n, o, r), however often n was registered before, both
\* renouncements are open again (to the manager and to o), so the cycle repeats.
C5_RenounceThenRegister ==
    /\ (/\ last.op \in {"renounce_ownership", "renounce_my_ownership"}
        /\ last.result = "Ok")
       => /\ is_domain_exist(PeerName, last.domain) = FALSE
          /\ owner(PeerName, last.domain) = None
          /\ \A o \in AccountId, r \in Resolver :
                 LET out == register_domain(PeerName, manager, last.domain, o, r)
                 IN  /\ out.result = "Ok"
                     /\ owner(out.self, last.domain) = o
    /\ Returned("register_domain", "Ok")
       => /\ LET out == renounce_ownership(PeerName, manager, last.domain)
             IN  /\ out.result = "Ok"
                 /\ is_domain_exist(out.self, last.domain) = FALSE
          /\ LET out == renounce_my_ownership(PeerName, last.account, last.domain)
             IN  /\ out.result = "Ok"
                 /\ is_domain_exist(out.self, last.domain) = FALSE

\* A name that was registered and renounced has been registered again.
C5_Witness ==
    /\ Returned("register_domain", "Ok")
    /\ calls = 3
    /\ Len(events) = 6
    /\ events[3].type = "Register"
    /\ events[3].node = get_node(last.domain)
    /\ ~HasRecord(pre, last.domain)

\* C6: set_sub_domain returns NameNotExists when the parent node has no record,
\* whoever calls; it returns UnauthorizedCaller when the parent has a record and
\* the caller is not its current owner (a former owner included); either way
\* the storage and the log stay as they were, and no record or resolver is
\* created for the sub node.
C6_SetSubDomainRejected ==
    last.op = "set_sub_domain" =>
       /\ ~HasRecord(pre, last.domain)
          => /\ last.result = "NameNotExists"
             /\ PeerName = pre
       /\ (/\ HasRecord(pre, last.domain)
           /\ last.caller # pre.records[get_node(last.domain)])
          => /\ last.result = "UnauthorizedCaller"
             /\ PeerName = pre
       /\ last.result \in {"NameNotExists", "UnauthorizedCaller"}
          => /\ get(records, get_subnode(last.domain, last.subdomain))
                = get(pre.records, get_subnode(last.domain, last.subdomain))
             /\ get(resolvers, get_subnode(last.domain, last.subdomain))
                = get(pre.resolvers, get_subnode(last.domain, last.subdomain))

\* The registrant of a name transferred it away and was then refused
\* set_sub_domain under it; the sub node has neither record nor resolver.
C6_Witness ==
    /\ Returned("set_sub_domain", "UnauthorizedCaller")
    /\ \E heir \in AccountId \ {last.caller} :
           AfterRegisterThenTransfer(last.domain, last.caller, heir)
    /\ ~contains_key(records, get_subnode(last.domain, last.subdomain))
    /\ ~contains_key(resolvers, get_subnode(last.domain, last.subdomain))

\* C7: change_manager by a caller other than admin returns UnauthorizedCaller
\* and leaves manager unchanged; by admin it returns Ok and sets manager; and
\* the register_domain that follows a successful change_manager(m) returns Ok
\* only for caller m, and UnauthorizedCaller for the previous manager if that
\* is not m.
C7_ChangeManager ==
    [][calls' = calls + 1 =>
       /\ (last'.op = "change_manager" /\ last'.caller # admin)
          => /\ last'.result = "UnauthorizedCaller"
             /\ manager' = manager
       /\ (last'.op = "change_manager" /\ last'.caller = admin)
          => /\ last'.result = "Ok"
             /\ manager' = last'.account
       /\ (Returned("change_manager", "Ok") /\ last'.op = "register_domain")
          => /\ last'.result = "Ok" => last'.caller = last.account
             /\ last'.caller # last.account
                => last'.result = "UnauthorizedCaller"
             /\ (last'.caller = pre.manager /\ pre.manager # last.account)
                => last'.result = "UnauthorizedCaller"]_vars

\* Admin has replaced the manager by a different account, and messages can
\* still follow.
C7_Witness ==
    /\ Returned("change_manager", "Ok")
    /\ pre.manager # last.account
    /\ manager = last.account
    /\ calls < MaxCalls

\* The scenario of the shop: three messages were handled, the manager
\* registered parent to o1, o1 registered sub under it, and o1 transferred
\* parent to o2.
ShopScenario(parent, sub, o1, o2) ==
    /\ o1 # o2
    /\ calls = 3
    /\ Len(events) = 8
    /\ events[3] = [type |-> "Register", node |-> get_node(parent), from |-> o1]
    /\ events[6] = [type |-> "Register", node |-> get_subnode(parent, sub),
                    from |-> o1]
    /\ events[7] = [type |-> "Transfer", node |-> get_node(parent), owner |-> o2]
    /\ events[8] = [type |-> "Transfer", node |-> get_node(parent), owner |-> o2]
    /\ Returned("transfer_domain_ownership", "Ok")
    /\ last.caller = o1

\* C8 as stated: in the state the scenario leaves, set_sub_domain and
\* update_subdomain_resolver for the same (parent, sub) both return Ok for o2
\* and both return UnauthorizedCaller for o1.
C8_Original ==
    \A parent \in Domains, sub \in SubDomains, o1 \in AccountId, o2 \in AccountId :
        ShopScenario(parent, sub, o1, o2) =>
            \A r \in Resolver :
                /\ set_sub_domain(PeerName, o2, parent, sub, r).result = "Ok"
                /\ update_subdomain_resolver(PeerName, o2, parent, r, sub).result
                   = "Ok"
                /\ set_sub_domain(PeerName, o1, parent, sub, r).result
                   = "UnauthorizedCaller"
                /\ update_subdomain_resolver(PeerName, o1, parent, r, sub).result
                   = "UnauthorizedCaller"

\* C8 as amended: in the state the scenario leaves, o2's
\* update_subdomain_resolver for the pair returns Ok and sets the sub node's
\* resolver; o2's set_sub_domain for the pair passes the owner check but
\* returns NameAlreadyExists, the sub node keeping o1's record; o1's
\* set_sub_domain and update_subdomain_resolver return UnauthorizedCaller.
C8_ShopScenario ==
    \A parent \in Domains, sub \in SubDomains, o1 \in AccountId, o2 \in AccountId :
        ShopScenario(parent, sub, o1, o2) =>
            \A r \in Resolver :
                /\ LET out == update_subdomain_resolver(PeerName, o2, parent, r, sub)
                   IN  /\ out.result = "Ok"
                       /\ subdomain_resolver(out.self, parent, sub) = r
                /\ LET out == set_sub_domain(PeerName, o2, parent, sub, r)
                   IN  /\ out.result = "NameAlreadyExists"
                       /\ out.self = PeerName
                       /\ records[get_subnode(parent, sub)] = o1
                /\ set_sub_domain(PeerName, o1, parent, sub, r)
                   = Err("UnauthorizedCaller", PeerName)
                /\ update_subdomain_resolver(PeerName, o1, parent, r, sub)
                   = Err("UnauthorizedCaller", PeerName)

\* The scenario has run: the parent is o2's, the sub node is still o1's.
C8_Witness ==
    \E parent \in Domains, sub \in SubDomains, o1 \in AccountId, o2 \in AccountId :
        /\ ShopScenario(parent, sub, o1, o2)
        /\ records[get_node(parent)] = o2
        /\ records[get_subnode(parent, sub)] = o1

\* The message a call describes, applied to a storage.
Apply(self, call) ==
    CASE call.op = "register_domain" ->
             register_domain(self, call.caller, call.domain, call.account,
                             call.resolver)
      [] call.op = "set_sub_domain" ->
             set_sub_domain(self, call.caller, call.domain, call.subdomain,
                            call.resolver)
      [] call.op = "update_domain_resolver" ->
             update_domain_resolver(self, call.caller, call.domain, call.resolver)
      [] call.op = "update_subdomain_resolver" ->
             update_subdomain_resolver(self, call.caller, call.domain,
                                       call.resolver, call.subdomain)
      [] call.op = "transfer_domain_ownership" ->
             transfer_domain_ownership(self, call.caller, call.domain,
                                       call.account)
      [] call.op = "renounce_ownership" ->
             renounce_ownership(self, call.caller, call.domain)
      [] call.op = "renounce_my_ownership" ->
             renounce_my_ownership(self, call.caller, call.domain)
      [] call.op = "change_manager" ->
             change_manager(self, call.caller, call.account)
      [] OTHER -> Ok(self)

\* C9: a message that returned an error left the owner map, the resolver map,
\* admin, manager and the event log as they were, and the same message from
\* the same caller with the same arguments returns the same error again and
\* changes nothing.
C9_ErrorsChangeNothing ==
    /\ last.op \in Mutations => last.result \in Errors \cup {"Ok"}
    /\ last.result \in Errors
       => /\ PeerName = pre
          /\ Apply(PeerName, last) = Err(last.result, PeerName)

\* A set_sub_domain was refused with NameAlreadyExists, after the owner check
\* and the lookup of the sub node, in a state with records and events.
C9_Witness ==
    /\ Returned("set_sub_domain", "NameAlreadyExists")
    /\ HasRecord(PeerName, last.domain)
    /\ Len(events) > 0

\* Some message by who changes the resolver of node, transfers node, or
\* renounces node.  Top-level nodes are reached by name; a sub node is reached
\* only by update_subdomain_resolver, the contract having no transfer or
\* renouncement that takes a sub name.
CanChangeResolver(node, who) ==
    \/ \E d \in Domains, r \in Resolver :
           /\ get_node(d) = node
           /\ update_domain_resolver(PeerName, who, d, r).result = "Ok"
    \/ \E d \in Domains, sub \in SubDomains, r \in Resolver :
           /\ get_subnode(d, sub) = node
           /\ update_subdomain_resolver(PeerName, who, d, r, sub).result = "Ok"

CanTransfer(node, who) ==
    \E d \in Domains :
        \A o \in AccountId :
            LET out == transfer_domain_ownership(PeerName, who, d, o)
            IN  /\ out.result = "Ok"
                /\ get(out.self.records, node) = o

CanRenounce(node, who) ==
    \E d \in Domains :
        LET out == renounce_my_ownership(PeerName, who, d)
        IN  /\ out.result = "Ok"
            /\ ~contains_key(out.self.records, node)

\* C10 as stated: for every node with a record, top-level or sub node, the
\* recorded owner can change its resolver, transfer it and renounce it.
C10_Original ==
    \A node \in DOMAIN records :
        /\ CanChangeResolver(node, records[node])
        /\ CanTransfer(node, records[node])
        /\ CanRenounce(node, records[node])

\* C10 as amended: for every top-level node with a record, the recorded owner's
\* update_domain_resolver, transfer_domain_ownership and renounce_my_ownership
\* return Ok and take effect.  The recorded owner of a sub node has no such
\* rights from that record: no message transfers or renounces a sub node, and
\* update_subdomain_resolver on it returns Ok exactly for the current owner of
\* the parent.
C10_OwnerRights ==
    /\ \A d \in Domains :
           HasRecord(PeerName, d) =>
               LET o == records[get_node(d)] IN
               /\ \A r \in Resolver :
                      LET out == update_domain_resolver(PeerName, o, d, r)
                      IN  /\ out.result = "Ok"
                          /\ domain_resolver(out.self, d) = r
               /\ \A x \in AccountId :
                      LET out == transfer_domain_ownership(PeerName, o, d, x)
                      IN  /\ out.result = "Ok"
                          /\ owner(out.self, d) = x
               /\ LET out == renounce_my_ownership(PeerName, o, d)
                  IN  /\ out.result = "Ok"
                      /\ owner(out.self, d) = None
    /\ \A d \in Domains, sub \in SubDomains :
           contains_key(records, get_subnode(d, sub)) =>
               /\ ~CanTransfer(get_subnode(d, sub), records[get_subnode(d, sub)])
               /\ ~CanRenounce(get_subnode(d, sub), records[get_subnode(d, sub)])
               /\ \A c \in AccountId, r \in Resolver :
                      update_subdomain_resolver(PeerName, c, d, r, sub).result = "Ok"
                      <=> (HasRecord(PeerName, d) /\ c = records[get_node(d)])

\* A sub node is recorded to an account that is no longer the parent's owner,
\* the parent having been transferred to somebody else.
C10_Witness ==
    \E d \in Domains, sub \in SubDomains :
        /\ contains_key(records, get_subnode(d, sub))
        /\ HasRecord(PeerName, d)
        /\ records[get_node(d)] # records[get_subnode(d, sub)]
        /\ Returned("transfer_domain_ownership", "Ok")

\* C11: admin is the account given at construction and no step changes it;
\* manager is always an account; and a step that changes manager is a
\* change_manager whose caller is admin.
C11_AdminAndManager ==
    /\ admin \in InitAdmins
    /\ admin = pre.admin
    /\ manager \in AccountId
    /\ manager # pre.manager
       => /\ Returned("change_manager", "Ok")
          /\ last.caller = admin
          /\ manager = last.account

\* Admin has handed the manager role to another account, in a registry that
\* has records.
C11_Witness ==
    /\ manager # pre.manager
    /\ last.op = "change_manager"
    /\ DOMAIN records # {}

\* C12: renounce_my_ownership on a name whose node has no record returns
\* NameNotExists.
C12_Original ==
    (last.op = "renounce_my_ownership" /\ ~HasRecord(pre, last.domain))
    => last.result = "NameNotExists"

\* The events a message appended to the log.
Emitted == SubSeq(events, Len(pre.events) + 1, Len(events))

\* C13: a successful change_manager(m) emits one ChangeManager event whose
\* _current_manager is the manager that held the role before the call and
\* whose _new_manager is m.
C13_Original ==
    Returned("change_manager", "Ok")
    => /\ Len(Emitted) = 1
       /\ Emitted[1].type = "ChangeManager"
       /\ Emitted[1]._current_manager = pre.manager
       /\ Emitted[1]._new_manager = last.account

\* The node a successful message wrote or removed an entry of.
Affected(call) ==
    IF call.op \in {"set_sub_domain", "update_subdomain_resolver"}
    THEN get_subnode(call.domain, call.subdomain)
    ELSE get_node(call.domain)

\* C14: every successful message that takes &mut self appends at least one
\* event to the log, one that names the node it affected (or, for
\* change_manager, the manager role); the owner map, the resolver map and
\* manager never change in a step that appends no event.
C14_Original ==
    /\ (last.op \in Mutations /\ last.result = "Ok")
       => \E i \in 1..Len(Emitted) :
              IF last.op = "change_manager"
              THEN Emitted[i].type = "ChangeManager"
              ELSE Emitted[i].node = Affected(last)
    /\ (records # pre.records \/ resolvers # pre.resolvers
        \/ manager # pre.manager)
       => Len(Emitted) >= 1

\* C15: a successful renounce_ownership(n) or renounce_my_ownership(n) removes
\* the owner entry of n's node and nothing else: the resolver map, admin and
\* manager are unchanged, domain_resolver(n) returns what it returned before,
\* and is_domain_exist(n) is false.
C15_RenounceKeepsResolver ==
    (/\ last.op \in {"renounce_ownership", "renounce_my_ownership"}
     /\ last.result = "Ok")
    => /\ records = take(pre.records, get_node(last.domain))
       /\ resolvers = pre.resolvers
       /\ admin = pre.admin
       /\ manager = pre.manager
       /\ domain_resolver(PeerName, last.domain)
          = domain_resolver(pre, last.domain)
       /\ is_domain_exist(PeerName, last.domain) = FALSE

\* The owner of a name renounced it and its resolver still answers.
C15_Witness ==
    /\ Returned("renounce_my_ownership", "Ok")
    /\ domain_resolver(PeerName, last.domain) \in Resolver
    /\ owner(PeerName, last.domain) = None

\* C16: update_subdomain_resolver by the current owner of a parent that has a
\* record returns Ok for every sub name, with or without a record for the sub
\* node; after it the sub node's resolver is the new one, the owner map is
\* unchanged, and is_subdomain_exist answers as before (false for a sub name
\* that was never registered).
C16_UpdateSubResolver ==
    last.op = "update_subdomain_resolver" =>
       /\ (/\ HasRecord(pre, last.domain)
           /\ last.caller = pre.records[get_node(last.domain)])
          => last.result = "Ok"
       /\ last.result = "Ok"
          => /\ subdomain_resolver(PeerName, last.domain, last.subdomain)
                = last.resolver
             /\ records = pre.records
             /\ is_subdomain_exist(PeerName, last.domain, last.subdomain)
                = is_subdomain_exist(pre, last.domain, last.subdomain)

\* A resolver was set for a sub name that has no record and had no resolver.
C16_Witness ==
    /\ Returned("update_subdomain_resolver", "Ok")
    /\ is_subdomain_exist(PeerName, last.domain, last.subdomain) = FALSE
    /\ subdomain_resolver(pre, last.domain, last.subdomain) = None
    /\ subdomain_resolver(PeerName, last.domain, last.subdomain) = last.resolver

\* C17: a step changes the owner entry of a top-level node only if the entry
\* was absent and the caller is the manager (register_domain), or it was
\* present and the caller is its owner (transfer_domain_ownership,
\* renounce_my_ownership), or it was present and the caller is the manager
\* (renounce_ownership); the owner entry of a sub node changes only by being
\* created, by set_sub_domain from the account that owns the parent then, with
\* that account recorded.
C17_AuthorizedOwnerChanges ==
    /\ \A d \in Domains :
           LET node == get_node(d) IN
           get(records, node) # get(pre.records, node)
           => \/ /\ last.op = "register_domain"
                 /\ ~contains_key(pre.records, node)
                 /\ last.caller = pre.manager
              \/ /\ last.op \in {"transfer_domain_ownership",
                                 "renounce_my_ownership"}
                 /\ contains_key(pre.records, node)
                 /\ last.caller = pre.records[node]
              \/ /\ last.op = "renounce_ownership"
                 /\ contains_key(pre.records, node)
                 /\ last.caller = pre.manager
    /\ \A d \in Domains, sub \in SubDomains :
           LET subnode == get_subnode(d, sub) IN
           get(records, subnode) # get(pre.records, subnode)
           => /\ last.op = "set_sub_domain"
              /\ ~contains_key(pre.records, subnode)
              /\ HasRecord(pre, d)
              /\ last.caller = pre.records[get_node(d)]
              /\ records[subnode] = last.caller

\* The owner of a name, who is not the manager, passed it to another account.
C17_Witness ==
    /\ Returned("transfer_domain_ownership", "Ok")
    /\ last.caller # pre.manager
    /\ owner(pre, last.domain) = last.caller
    /\ owner(PeerName, last.domain) # last.caller

\* The storage self with the log left out.
Storage(self) == [records |-> self.records, resolvers |-> self.resolvers,
                  admin |-> self.admin, manager |-> self.manager]

\* C18: a successful transfer_domain_ownership(n, x) sets the owner entry of
\* n's node to x and leaves the other owner entries, the resolver map, admin
\* and manager alone; a successful update_domain_resolver or
\* update_subdomain_resolver sets the resolver entry of its node and leaves the
\* other resolver entries, the owner map, admin and manager alone; a successful
\* change_manager changes manager only; the messages that take &self change
\* nothing.
C18_Frame ==
    /\ Returned("transfer_domain_ownership", "Ok")
       => Storage(PeerName)
          = [Storage(pre) EXCEPT
                !.records = insert(@, get_node(last.domain), last.account)]
    /\ (/\ last.op \in {"update_domain_resolver", "update_subdomain_resolver"}
        /\ last.result = "Ok")
       => Storage(PeerName)
          = [Storage(pre) EXCEPT
                !.resolvers = insert(@, Affected(last), last.resolver)]
    /\ Returned("change_manager", "Ok")
       => Storage(PeerName) = [Storage(pre) EXCEPT !.manager = last.account]
    /\ last.op \in Queries => PeerName = pre

\* A name was transferred to another account while its sub node had a record
\* and a resolver of its own.
C18_Witness ==
    /\ Returned("transfer_domain_ownership", "Ok")
    /\ last.account # last.caller
    /\ \E sub \in SubDomains :
           /\ contains_key(records, get_subnode(last.domain, sub))
           /\ contains_key(resolvers, get_subnode(last.domain, sub))

C20_ResolverEntries ==
    /\ DOMAIN records \subseteq DOMAIN resolvers
    /\ DOMAIN pre.resolvers \subseteq DOMAIN resolvers

\* A sub node was registered: both it and its parent have a record and a
\* resolver entry.
C20_Witness ==
    /\ Returned("set_sub_domain", "Ok")
    /\ Cardinality(DOMAIN records) = 2
    /\ Cardinality(DOMAIN resolvers) = 2

====
